---- MODULE Spec2Model ----
(***************************************************************************)
(* Model of the backtesting engine (releases/core/backtest_engine.py) and  *)
(* of the core trading rules (crypto-futures-bot/config/core_rules.py).    *)
(*                                                                         *)
(* Python floats are modelled as exact rationals <<n, d>> with d > 0 in    *)
(* lowest terms, so that divisions and percentages are computed, not       *)
(* assumed.  Python's None is the empty sequence for an object slot, -1    *)
(* for a time stamp and <<0, 0>> for a number.                             *)
(***************************************************************************)
EXTENDS Integers, Sequences, FiniteSets, TLC

(***************************************************************************)
(* Bounds of the model.                                                    *)
(***************************************************************************)
MaxCandles == 5

(***************************************************************************)
(* Exact rational arithmetic.                                              *)
(***************************************************************************)
Abs(x) == IF x < 0 THEN -x ELSE x

RECURSIVE Gcd(_, _)
Gcd(a, b) == IF b = 0 THEN a ELSE Gcd(b, a % b)

Norm(n, d) ==
    LET g == Gcd(Abs(n), Abs(d))
        s == IF d < 0 THEN -1 ELSE 1
    IN  <<(s * n) \div g, (s * d) \div g>>

Q(n) == <<n, 1>>
NoneQ == <<0, 0>>
IsNum(a) == a[2] > 0

QAdd(a, b) ==
    LET g == Gcd(a[2], b[2])
    IN  Norm(a[1] * (b[2] \div g) + b[1] * (a[2] \div g), (a[2] \div g) * b[2])
QNeg(a) == <<-a[1], a[2]>>
QSub(a, b) == QAdd(a, QNeg(b))
QMul(a, b) ==
    LET g1 == Gcd(Abs(a[1]), b[2])
        g2 == Gcd(Abs(b[1]), a[2])
    IN  Norm((a[1] \div g1) * (b[1] \div g2), (a[2] \div g2) * (b[2] \div g1))
QInv(a) == IF a[1] < 0 THEN <<-a[2], -a[1]>> ELSE <<a[2], a[1]>>
\* a / b; a zero divisor yields NoneQ, the marker of a division fault
QDiv(a, b) == IF b[1] = 0 THEN NoneQ ELSE QMul(a, QInv(b))
QLt(a, b) ==
    LET g == Gcd(a[2], b[2]) IN a[1] * (b[2] \div g) < b[1] * (a[2] \div g)
QLe(a, b) ==
    LET g == Gcd(a[2], b[2]) IN a[1] * (b[2] \div g) <= b[1] * (a[2] \div g)
QGt(a, b) == QLt(b, a)
QGe(a, b) == QLe(b, a)
QAbs(a) == <<Abs(a[1]), a[2]>>
QMin(a, b) == IF QLt(b, a) THEN b ELSE a
QMax(a, b) == IF QGt(b, a) THEN b ELSE a
Sign(a) == IF a[1] > 0 THEN 1 ELSE IF a[1] < 0 THEN -1 ELSE 0

RECURSIVE QSum(_)
QSum(s) == IF s = <<>> THEN Q(0) ELSE QAdd(s[1], QSum(Tail(s)))

\* numpy.mean of a non-empty list
QMean(s) == QDiv(QSum(s), Q(Len(s)))


(***************************************************************************)
(* Historical data.  A candle is one row of the data frame; volume is      *)
(* never read by the engine and is left out of the row.                    *)
(***************************************************************************)
CandleShapes ==
    { [open |-> 100, high |-> 105, low |-> 95,  close |-> 100],
      [open |-> 100, high |-> 102, low |-> 90,  close |-> 92],
      [open |-> 100, high |-> 104, low |-> 96,  close |-> 96] }

Candle(ts, sh) ==
    [timestamp |-> ts, open |-> sh.open, high |-> sh.high,
     low |-> sh.low, close |-> sh.close]

SeqsUpTo(S, n) == UNION { [1..k -> S] : k \in 0..n }

\* the data frames handed to load_data: rows in ascending or descending
\* time order, with or without all the required columns
Frame(shapes, order, cols) ==
    [columns_ok |-> cols,
     rows |-> [k \in 1..Len(shapes) |->
                 Candle(IF order = "asc" THEN k ELSE Len(shapes) + 1 - k, shapes[k])]]

RECURSIVE InsertByTimestamp(_, _)
InsertByTimestamp(row, s) ==
    IF s = <<>> THEN <<row>>
    ELSE IF row.timestamp < s[1].timestamp THEN <<row>> \o s
         ELSE <<s[1]>> \o InsertByTimestamp(row, Tail(s))

\* the rows left in the order they came in
SortByTimestampSkipped(rows) == rows

\* data.sort_values('timestamp').reset_index(drop=True)
RECURSIVE SortByTimestamp(_)
SortByTimestamp(rows) ==
    IF rows = <<>> THEN <<>>
    ELSE InsertByTimestamp(rows[1], SortByTimestamp(Tail(rows)))

(***************************************************************************)
(* Strategy rules.  A condition is either a callable over (current,        *)
(* history) or a dict of named thresholds; callable = "" means a dict,     *)
(* whose items are the <<key, value>> pairs in keys.  A rules dict holds   *)
(* the keys named in fields; the other entries of the record are unused.   *)
(***************************************************************************)
Condition(fn) == [callable |-> fn, keys |-> {}]

DictCondition(items) == [callable |-> "", keys |-> items]

\* `key in conditions` and `conditions[key]`
HasKey(conditions, key) == \E p \in conditions.keys : p[1] = key

KeyValue(conditions, key) == (CHOOSE p \in conditions.keys : p[1] = key)[2]

RuleFields ==
    {"direction", "stop_loss_percent", "take_profit_percent",
     "position_size_percent", "entry_conditions", "exit_conditions"}

Rules(dir, sl, tp, psp, entry, exit) ==
    [direction |-> dir, stop_loss_percent |-> sl, take_profit_percent |-> tp,
     position_size_percent |-> psp, entry_conditions |-> entry,
     exit_conditions |-> exit, fields |-> RuleFields]

NoRules == Rules("", 0, 0, 0, Condition(""), Condition(""))

\* a rules dict with no key at all
EmptyRules == [NoRules EXCEPT !.fields = {}]

\* a rules dict without 'direction', its conditions holding keys that the
\* engine does not know next to one that it does
UnknownKeyRules ==
    [Rules("", 1, 2, 10,
           DictCondition({<<"volume_above", 1000>>, <<"price_above_ma", 2>>}),
           DictCondition({<<"macd_cross", 1>>}))
       EXCEPT !.fields = RuleFields \ {"direction"}]

\* the rules strategy_parser.convert_to_executable builds for an RSI strategy
RsiRules ==
    Rules("long", 2, 5, 10, DictCondition({<<"rsi_below", 30>>}),
          DictCondition({<<"rsi_above", 70>>}))

StrategyRules ==
    { Rules(d, p[1], p[2], 10, Condition(en), Condition(ex)) :
        d \in {"long", "short"}, p \in {<<1, 2>>, <<5, 10>>},
        en \in {"", "close_up"}, ex \in {"", "close_down"} }
    \cup {EmptyRules, UnknownKeyRules, RsiRules}

\* the defaults of strategy_rules.get(...) in execute_strategy
DefaultPositionSizePercent == 10
DefaultStopLossPercent == 2
DefaultTakeProfitPercent == 5
DefaultDirection == "long"

\* the parameters read from the rules dict with no default for a missing key
ParamsNoDefaults(r) == r

\* the strategy parameters execute_strategy reads from the rules dict
Params(r) ==
    [direction |->
        IF "direction" \in r.fields THEN r.direction ELSE DefaultDirection,
     stop_loss_percent |->
        IF "stop_loss_percent" \in r.fields
        THEN r.stop_loss_percent ELSE DefaultStopLossPercent,
     take_profit_percent |->
        IF "take_profit_percent" \in r.fields
        THEN r.take_profit_percent ELSE DefaultTakeProfitPercent,
     position_size_percent |->
        IF "position_size_percent" \in r.fields
        THEN r.position_size_percent ELSE DefaultPositionSizePercent,
     entry_conditions |->
        IF "entry_conditions" \in r.fields
        THEN r.entry_conditions ELSE DictCondition({}),
     exit_conditions |->
        IF "exit_conditions" \in r.fields
        THEN r.exit_conditions ELSE DictCondition({}),
     fields |-> r.fields]

\* the callables a strategy may supply: pure predicates of the current
\* candle and the trailing window
CallPredicate(fn, current, history) ==
    CASE fn = "close_up"   -> current.close > history[Len(history)].close
      [] fn = "close_down" -> current.close < history[Len(history)].close
      [] OTHER             -> FALSE

(***************************************************************************)
(* Trade: a single position, open until close() is called on it.           *)
(***************************************************************************)
Trade(entry_time, entry_price, position_size, direction) ==
    [entry_time |-> entry_time, entry_price |-> entry_price,
     position_size |-> position_size, direction |-> direction,
     exit_time |-> -1, exit_price |-> NoneQ,
     profit |-> Q(0), profit_percent |-> Q(0), duration |-> -1,
     closed |-> FALSE]

\* TradeProfit that ignores the direction
TradeProfitLongOnly(t, exit_price) ==
    QMul(QSub(exit_price, t.entry_price), t.position_size)

\* profit and profit_percent of a trade closed at exit_price
TradeProfit(t, exit_price) ==
    IF t.direction = "long"
    THEN QMul(QSub(exit_price, t.entry_price), t.position_size)
    ELSE QMul(QSub(t.entry_price, exit_price), t.position_size)

TradeProfitPercent(t, exit_price) ==
    IF t.direction = "long"
    THEN QMul(QDiv(QSub(exit_price, t.entry_price), t.entry_price), Q(100))
    ELSE QMul(QDiv(QSub(t.entry_price, exit_price), t.entry_price), Q(100))

\* Trade.close; time stamps count hours, so the duration is their difference
TradeClose(t, exit_time, exit_price) ==
    [t EXCEPT !.exit_time = exit_time,
              !.exit_price = exit_price,
              !.closed = TRUE,
              !.profit = TradeProfit(t, exit_price),
              !.profit_percent = TradeProfitPercent(t, exit_price),
              !.duration = exit_time - t.entry_time]

(***************************************************************************)
(* BacktestEngine.                                                         *)
(***************************************************************************)
InitialCapital == 10000
WindowSize == 50

VARIABLES
    loaded,            \* the engine has a data attribute (load_data succeeded once)
    data,              \* self.data: the loaded candles, sorted by time
    capital,           \* self.capital
    trades,            \* self.trades: the trade history
    equity_curve,      \* self.equity_curve
    current_position,  \* self.current_position: <<>> or <<the open trade>>
    pc,                \* "idle", or "loop" inside execute_strategy
    i,                 \* the loop index of execute_strategy
    rules,             \* the strategy_rules of the call in progress / last call
    result,            \* the value returned by the last execute_strategy call
    opened,            \* history: entry times of the positions opened in this run
    prev,              \* history: <<report>> of the preceding run of the same
                       \* rules on the same data, else <<>>
    last_load,         \* history: the load_data call made since the last
                       \* execute_strategy call, and what it returned
    call,              \* the last core-rules function call and what it returned
    ui                 \* the strategy tester tab: chosen files, Run button,
                       \* and the BacktestThreads started so far

engineVars == <<loaded, data, capital, trades, equity_curve, current_position,
                pc, i, rules, result, opened, prev, last_load>>
vars == <<loaded, data, capital, trades, equity_curve, current_position,
          pc, i, rules, result, opened, prev, last_load, call, ui>>

\* _open_position
OpenPosition(cap, timestamp, price, position_size_percent, direction) ==
    Trade(timestamp, price,
          QDiv(QDiv(QMul(cap, Q(position_size_percent)), Q(100)), price),
          direction)

\* ClosePosition that does not add the profit of the trade to the capital
ClosePositionNoCredit(cap, hist, pos, timestamp, price) ==
    IF pos # <<>>
    THEN LET t == TradeClose(pos[1], timestamp, price)
         IN  [capital |-> cap, trades |-> Append(hist, t),
              current_position |-> <<>>]
    ELSE [capital |-> cap, trades |-> hist, current_position |-> pos]

\* ClosePosition that forgets to append the closed trade to the history
ClosePositionNoAppend(cap, hist, pos, timestamp, price) ==
    IF pos # <<>>
    THEN LET t == TradeClose(pos[1], timestamp, price)
         IN  [capital |-> QAdd(cap, t.profit), trades |-> hist,
              current_position |-> <<>>]
    ELSE [capital |-> cap, trades |-> hist, current_position |-> pos]

\* _close_position: the engine fields after closing pos at (timestamp, price)
ClosePosition(cap, hist, pos, timestamp, price) ==
    IF pos # <<>>
    THEN LET t == TradeClose(pos[1], timestamp, price)
         IN  [capital |-> QAdd(cap, t.profit), trades |-> Append(hist, t),
              current_position |-> <<>>]
    ELSE [capital |-> cap, trades |-> hist, current_position |-> pos]

\* StopPrice with the percentage taken as a fraction
StopPriceNoPercent(entry_price, stop_loss_percent) ==
    QMul(entry_price, QSub(Q(1), Q(stop_loss_percent)))

StopPrice(entry_price, stop_loss_percent) ==
    QMul(entry_price, QSub(Q(1), QDiv(Q(stop_loss_percent), Q(100))))

\* TakeProfitPrice with the percentage taken as a fraction
TakeProfitPriceNoPercent(entry_price, take_profit_percent) ==
    QMul(entry_price, QAdd(Q(1), Q(take_profit_percent)))

TakeProfitPrice(entry_price, take_profit_percent) ==
    QMul(entry_price, QAdd(Q(1), QDiv(Q(take_profit_percent), Q(100))))

RsiPeriod == 14

\* history['close']
Closes(history) == [k \in 1..Len(history) |-> history[k].close]

\* prices.tail(n)
TailN(prices, n) ==
    IF n >= Len(prices) THEN prices
    ELSE SubSeq(prices, Len(prices) - n + 1, Len(prices))

\* the sum of a list of whole price differences
RECURSIVE IntSum(_)
IntSum(s) == IF s = <<>> THEN 0 ELSE s[1] + IntSum(Tail(s))

\* _calculate_rsi: None with fewer than period + 1 prices; else the last
\* value of 100 - 100 / (1 + gain / loss) over the last `period` deltas,
\* which is NaN when there is neither a gain nor a loss and 100 when there
\* is no loss
Rsi(prices, period) ==
    IF Len(prices) < period + 1 THEN [kind |-> "none", value |-> Q(0)]
    ELSE LET n == Len(prices)
             delta(k) == prices[k] - prices[k - 1]
             ups == [k \in 1..period |->
                        LET dl == delta(n - period + k)
                        IN  IF dl > 0 THEN dl ELSE 0]
             downs == [k \in 1..period |->
                        LET dl == delta(n - period + k)
                        IN  IF dl < 0 THEN -dl ELSE 0]
             gain == QDiv(Q(IntSum(ups)), Q(period))
             loss == QDiv(Q(IntSum(downs)), Q(period))
         IN  IF loss = Q(0)
             THEN IF gain = Q(0) THEN [kind |-> "nan", value |-> Q(0)]
                  ELSE [kind |-> "num", value |-> Q(100)]
             ELSE [kind |-> "num",
                   value |-> QSub(Q(100),
                                  QDiv(Q(100), QAdd(Q(1), QDiv(gain, loss))))]

\* _check_entry_conditions in which an unavailable RSI does not block the entry
CheckEntryConditionsNoneOk(current, history, r) ==
    IF r.entry_conditions.callable # ""
    THEN CallPredicate(r.entry_conditions.callable, current, history)
    ELSE LET conditions == r.entry_conditions
             rsi == Rsi(Closes(history), RsiPeriod)
             rsiBlocks ==
                 /\ HasKey(conditions, "rsi_below")
                 /\ rsi.kind = "num"
                 /\ QGt(rsi.value, Q(KeyValue(conditions, "rsi_below")))
             maBlocks ==
                 /\ HasKey(conditions, "price_above_ma")
                 /\ QLt(Q(current.close),
                        QMean([k \in 1..Len(TailN(Closes(history),
                                       KeyValue(conditions, "price_above_ma"))) |->
                                 Q(TailN(Closes(history),
                                     KeyValue(conditions, "price_above_ma"))[k])]))
         IN  ~rsiBlocks /\ ~maBlocks

\* _check_entry_conditions: keys other than rsi_below and price_above_ma
\* are never looked at
CheckEntryConditions(current, history, r) ==
    IF r.entry_conditions.callable # ""
    THEN CallPredicate(r.entry_conditions.callable, current, history)
    ELSE LET conditions == r.entry_conditions
             rsi == Rsi(Closes(history), RsiPeriod)
             rsiBlocks ==
                 /\ HasKey(conditions, "rsi_below")
                 /\ \/ rsi.kind = "none"
                    \/ /\ rsi.kind = "num"
                       /\ QGt(rsi.value, Q(KeyValue(conditions, "rsi_below")))
             maBlocks ==
                 /\ HasKey(conditions, "price_above_ma")
                 /\ QLt(Q(current.close),
                        QMean([k \in 1..Len(TailN(Closes(history),
                                       KeyValue(conditions, "price_above_ma"))) |->
                                 Q(TailN(Closes(history),
                                     KeyValue(conditions, "price_above_ma"))[k])]))
         IN  ~rsiBlocks /\ ~maBlocks

\* _check_exit_conditions: keys other than rsi_above are never looked at
CheckExitConditions(current, history, r) ==
    IF r.exit_conditions.callable # ""
    THEN CallPredicate(r.exit_conditions.callable, current, history)
    ELSE LET conditions == r.exit_conditions
             rsi == Rsi(Closes(history), RsiPeriod)
         IN  /\ HasKey(conditions, "rsi_above")
             /\ rsi.kind = "num"
             /\ QGt(rsi.value, Q(KeyValue(conditions, "rsi_above")))

\* the window without the limit of 50 candles
PrevCandlesUnbounded(d, k) == SubSeq(d, 1, k)

\* self.data.iloc[max(0, i-50):i]
PrevCandles(d, k) ==
    SubSeq(d, (IF k - WindowSize > 0 THEN k - WindowSize ELSE 0) + 1, k)

\* Decision with the entry check also made while a position is held
DecisionEntryWhileOpen(pos, current, history, r) ==
    IF pos # <<>>
    THEN IF /\ r.direction = "long"
            /\ QLe(Q(current.low), StopPrice(pos[1].entry_price, r.stop_loss_percent))
         THEN "stop_loss"
         ELSE IF /\ r.direction = "long"
                 /\ QGe(Q(current.high),
                        TakeProfitPrice(pos[1].entry_price, r.take_profit_percent))
              THEN "take_profit"
              ELSE IF CheckExitConditions(current, history, r) THEN "exit"
                   ELSE IF CheckEntryConditions(current, history, r)
                        THEN "open" ELSE "hold"
    ELSE IF CheckEntryConditions(current, history, r) THEN "open" ELSE "flat"

\* Decision with the take-profit test made before the stop-loss test
DecisionTakeProfitFirst(pos, current, history, r) ==
    IF pos # <<>>
    THEN IF /\ r.direction = "long"
            /\ QGe(Q(current.high),
                   TakeProfitPrice(pos[1].entry_price, r.take_profit_percent))
         THEN "take_profit"
         ELSE IF /\ r.direction = "long"
                 /\ QLe(Q(current.low),
                        StopPrice(pos[1].entry_price, r.stop_loss_percent))
              THEN "stop_loss"
              ELSE IF CheckExitConditions(current, history, r)
                   THEN "exit" ELSE "hold"
    ELSE IF CheckEntryConditions(current, history, r) THEN "open" ELSE "flat"

\* what the loop body of execute_strategy does with the current candle
Decision(pos, current, history, r) ==
    IF pos # <<>>
    THEN IF /\ r.direction = "long"
            /\ QLe(Q(current.low), StopPrice(pos[1].entry_price, r.stop_loss_percent))
         THEN "stop_loss"
         ELSE IF /\ r.direction = "long"
                 /\ QGe(Q(current.high),
                        TakeProfitPrice(pos[1].entry_price, r.take_profit_percent))
              THEN "take_profit"
              ELSE IF CheckExitConditions(current, history, r)
                   THEN "exit" ELSE "hold"
    ELSE IF CheckEntryConditions(current, history, r) THEN "open" ELSE "flat"

\* the equity appended at the end of an iteration that did not `continue`
CurrentEquity(cap, pos, current) ==
    IF pos # <<>>
    THEN QAdd(cap, QMul(QSub(Q(current.close), pos[1].entry_price),
                        pos[1].position_size))
    ELSE cap

\* the loop body without `continue` after a close: the entry condition is
\* evaluated on the candle that closed the position
LoopBodyReenters(cap, hist, pos, eq, op, current, history, r) ==
    LET d == Decision(pos, current, history, r)
        closedAt(price) ==
            LET c == ClosePosition(cap, hist, pos, current.timestamp, price)
                p == <<OpenPosition(c.capital, current.timestamp, Q(current.close),
                                    r.position_size_percent, r.direction)>>
            IN  IF CheckEntryConditions(current, history, r)
                THEN [capital |-> c.capital, trades |-> c.trades,
                      current_position |-> p,
                      equity_curve |-> eq, opened |-> Append(op, current.timestamp)]
                ELSE [capital |-> c.capital, trades |-> c.trades,
                      current_position |-> c.current_position,
                      equity_curve |-> eq, opened |-> op]
    IN  CASE d = "stop_loss" ->
               closedAt(StopPrice(pos[1].entry_price, r.stop_loss_percent))
          [] d = "take_profit" ->
               closedAt(TakeProfitPrice(pos[1].entry_price, r.take_profit_percent))
          [] d = "exit" -> closedAt(Q(current.close))
          [] d = "open" ->
               LET p == <<OpenPosition(cap, current.timestamp, Q(current.close),
                                       r.position_size_percent, r.direction)>>
               IN  [capital |-> cap, trades |-> hist, current_position |-> p,
                    equity_curve |-> Append(eq, CurrentEquity(cap, p, current)),
                    opened |-> Append(op, current.timestamp)]
          [] OTHER ->
               [capital |-> cap, trades |-> hist, current_position |-> pos,
                equity_curve |-> Append(eq, CurrentEquity(cap, pos, current)),
                opened |-> op]

\* one iteration of the for loop: the engine fields after the candle
LoopBody(cap, hist, pos, eq, op, current, history, r) ==
    LET d == Decision(pos, current, history, r)
        closedAt(price) ==
            LET c == ClosePosition(cap, hist, pos, current.timestamp, price)
            IN  [capital |-> c.capital, trades |-> c.trades,
                 current_position |-> c.current_position,
                 equity_curve |-> eq, opened |-> op]
    IN  CASE d = "stop_loss" ->
               closedAt(StopPrice(pos[1].entry_price, r.stop_loss_percent))
          [] d = "take_profit" ->
               closedAt(TakeProfitPrice(pos[1].entry_price, r.take_profit_percent))
          [] d = "exit" -> closedAt(Q(current.close))
          [] d = "open" ->
               LET p == <<OpenPosition(cap, current.timestamp, Q(current.close),
                                       r.position_size_percent, r.direction)>>
               IN  [capital |-> cap, trades |-> hist, current_position |-> p,
                    equity_curve |-> Append(eq, CurrentEquity(cap, p, current)),
                    opened |-> Append(op, current.timestamp)]
          [] OTHER ->
               [capital |-> cap, trades |-> hist, current_position |-> pos,
                equity_curve |-> Append(eq, CurrentEquity(cap, pos, current)),
                opened |-> op]

(***************************************************************************)
(* _calculate_results.  The Sharpe ratio needs a square root and is not    *)
(* part of the modelled report.                                            *)
(***************************************************************************)
NoResult ==
    [keys |-> {}, error |-> "", raised |-> "",
     total_trades |-> 0, winning_trades |-> 0, losing_trades |-> 0,
     win_rate |-> Q(0), total_profit |-> Q(0), total_return_percent |-> Q(0),
     initial_capital |-> Q(0), final_capital |-> Q(0),
     avg_win |-> Q(0), avg_loss |-> Q(0), profit_factor |-> Q(0),
     max_drawdown_percent |-> Q(0), avg_trade_duration_hours |-> Q(0),
     equity_curve |-> <<>>, trades |-> <<>>, profitable |-> FALSE]

ReportKeys ==
    {"total_trades", "winning_trades", "losing_trades", "win_rate",
     "total_profit", "total_return_percent", "initial_capital", "final_capital",
     "avg_win", "avg_loss", "profit_factor", "max_drawdown_percent",
     "avg_trade_duration_hours", "equity_curve", "trades", "profitable"}

ErrorResult(msg) == [NoResult EXCEPT !.keys = {"error"}, !.error = msg]

Profits(hist) == [k \in 1..Len(hist) |-> hist[k].profit]

\* ProfitFactor without the test for a zero average loss
ProfitFactorUnguarded(avg_win, avg_loss) == QAbs(QDiv(avg_win, avg_loss))

\* abs(avg_win / avg_loss) if avg_loss != 0 else 0
ProfitFactor(avg_win, avg_loss) ==
    IF avg_loss # Q(0) THEN QAbs(QDiv(avg_win, avg_loss)) ELSE Q(0)

\* the maximum of the whole curve in place of the running maximum
RunningMaxGlobal(eq, k) ==
    CHOOSE m \in { eq[j] : j \in 1..Len(eq) } : \A j \in 1..Len(eq) : QLe(eq[j], m)

\* np.maximum.accumulate
RECURSIVE RunningMax(_, _)
RunningMax(eq, k) ==
    IF k = 1 THEN eq[1] ELSE QMax(RunningMax(eq, k - 1), eq[k])

\* abs(((equity - running_max) / running_max * 100).min())
RECURSIVE QMinOf(_)
QMinOf(s) == IF Len(s) = 1 THEN s[1] ELSE QMin(s[1], QMinOf(Tail(s)))

MaxDrawdown(eq) ==
    QAbs(QMinOf([k \in 1..Len(eq) |->
            QMul(QDiv(QSub(eq[k], RunningMax(eq, k)), RunningMax(eq, k)), Q(100))]))

\* a no-trades result that is an error and nothing else
NoTradesResultErrorOnly == ErrorResult("No trades executed")

\* {'total_trades': 0, 'error': 'No trades executed'}
NoTradesResult ==
    [NoResult EXCEPT !.keys = {"total_trades", "error"},
                     !.total_trades = 0,
                     !.error = "No trades executed"]

CalculateResults(cap, hist, eq) ==
    IF Len(hist) = 0
    THEN NoTradesResult
    ELSE LET winning == SelectSeq(Profits(hist), LAMBDA p : QGt(p, Q(0)))
             losing  == SelectSeq(Profits(hist), LAMBDA p : QLe(p, Q(0)))
             avg_win  == IF winning # <<>> THEN QMean(winning) ELSE Q(0)
             avg_loss == IF losing # <<>> THEN QMean(losing) ELSE Q(0)
             total_profit == QSum(Profits(hist))
         IN  [keys |-> ReportKeys, error |-> "", raised |-> "",
              total_trades |-> Len(hist),
              winning_trades |-> Len(winning),
              losing_trades |-> Len(losing),
              win_rate |-> QMul(QDiv(Q(Len(winning)), Q(Len(hist))), Q(100)),
              total_profit |-> total_profit,
              total_return_percent |->
                  QMul(QDiv(QSub(cap, Q(InitialCapital)), Q(InitialCapital)), Q(100)),
              initial_capital |-> Q(InitialCapital),
              final_capital |-> cap,
              avg_win |-> avg_win,
              avg_loss |-> avg_loss,
              profit_factor |-> ProfitFactor(avg_win, avg_loss),
              max_drawdown_percent |-> MaxDrawdown(eq),
              avg_trade_duration_hours |->
                  QMean([k \in 1..Len(hist) |-> Q(hist[k].duration)]),
              equity_curve |-> eq,
              trades |-> hist,
              profitable |-> QGt(total_profit, Q(0))]

(***************************************************************************)
(* Core trading rules (config/core_rules.py).                              *)
(***************************************************************************)
SENTIMENT_MIN_THRESHOLD == 3
TRADE_LONG_SENTIMENT == 3
TRADE_SHORT_SENTIMENT == -3
MAX_RISK_PERCENT == <<1, 100>>
MIN_POSITION_SIZE == 10
STOP_LOSS_MAX_RATIO == <<1, 2>>
MIN_TAKE_PROFIT_PERCENT == <<5, 1000>>

\* validate_core_rules without the SHORT direction check
ValidateCoreRulesNoShort(sentiment, risk_percent, take_profit, stop_loss, direction) ==
    IF Abs(sentiment) < SENTIMENT_MIN_THRESHOLD THEN <<FALSE, "sentiment">>
    ELSE IF QGt(risk_percent, MAX_RISK_PERCENT) THEN <<FALSE, "risk">>
    ELSE IF QGt(stop_loss, QMul(take_profit, STOP_LOSS_MAX_RATIO))
         THEN <<FALSE, "stop_loss">>
    ELSE IF QLt(take_profit, MIN_TAKE_PROFIT_PERCENT) THEN <<FALSE, "take_profit">>
    ELSE IF direction = "LONG" /\ sentiment < TRADE_LONG_SENTIMENT
         THEN <<FALSE, "long_sentiment">>
    ELSE <<TRUE, "ok">>

\* validate_core_rules with the risk check made before the sentiment check
ValidateCoreRulesRiskFirst(sentiment, risk_percent, take_profit, stop_loss, direction) ==
    IF QGt(risk_percent, MAX_RISK_PERCENT) THEN <<FALSE, "risk">>
    ELSE IF Abs(sentiment) < SENTIMENT_MIN_THRESHOLD THEN <<FALSE, "sentiment">>
    ELSE IF QGt(stop_loss, QMul(take_profit, STOP_LOSS_MAX_RATIO))
         THEN <<FALSE, "stop_loss">>
    ELSE IF QLt(take_profit, MIN_TAKE_PROFIT_PERCENT) THEN <<FALSE, "take_profit">>
    ELSE IF direction = "LONG" /\ sentiment < TRADE_LONG_SENTIMENT
         THEN <<FALSE, "long_sentiment">>
    ELSE IF direction = "SHORT" /\ sentiment > TRADE_SHORT_SENTIMENT
         THEN <<FALSE, "short_sentiment">>
    ELSE <<TRUE, "ok">>

\* validate_core_rules: <<is_valid, which check produced the message>>
ValidateCoreRules(sentiment, risk_percent, take_profit, stop_loss, direction) ==
    IF Abs(sentiment) < SENTIMENT_MIN_THRESHOLD THEN <<FALSE, "sentiment">>
    ELSE IF QGt(risk_percent, MAX_RISK_PERCENT) THEN <<FALSE, "risk">>
    ELSE IF QGt(stop_loss, QMul(take_profit, STOP_LOSS_MAX_RATIO))
         THEN <<FALSE, "stop_loss">>
    ELSE IF QLt(take_profit, MIN_TAKE_PROFIT_PERCENT) THEN <<FALSE, "take_profit">>
    ELSE IF direction = "LONG" /\ sentiment < TRADE_LONG_SENTIMENT
         THEN <<FALSE, "long_sentiment">>
    ELSE IF direction = "SHORT" /\ sentiment > TRADE_SHORT_SENTIMENT
         THEN <<FALSE, "short_sentiment">>
    ELSE <<TRUE, "ok">>

\* calculate_position_size without the minimum position size
CalculatePositionSizeNoFloor(cap, risk_percent) ==
    LET r == IF risk_percent = NoneQ THEN MAX_RISK_PERCENT ELSE risk_percent
    IN  QMul(cap, QMin(r, MAX_RISK_PERCENT))

\* calculate_position_size; risk_percent = NoneQ is the default argument None
CalculatePositionSize(cap, risk_percent) ==
    LET r == IF risk_percent = NoneQ THEN MAX_RISK_PERCENT ELSE risk_percent
    IN  QMax(QMul(cap, QMin(r, MAX_RISK_PERCENT)), Q(MIN_POSITION_SIZE))

\* calculate_stop_loss with the SHORT stop on the LONG side
CalculateStopLossSameSide(entry_price, take_profit_price, direction) ==
    QSub(entry_price,
         QMul(QAbs(QSub(take_profit_price, entry_price)), STOP_LOSS_MAX_RATIO))

\* calculate_stop_loss with the side of the stop chosen by the direction
\* alone: below entry for LONG, above entry otherwise
CalculateStopLossByDirection(entry_price, take_profit_price, direction) ==
    IF direction = "LONG"
    THEN QSub(entry_price,
              QMul(QAbs(QSub(take_profit_price, entry_price)), STOP_LOSS_MAX_RATIO))
    ELSE QAdd(entry_price,
              QMul(QAbs(QSub(entry_price, take_profit_price)), STOP_LOSS_MAX_RATIO))

\* calculate_stop_loss
CalculateStopLoss(entry_price, take_profit_price, direction) ==
    IF direction = "LONG"
    THEN QSub(entry_price,
              QMul(QSub(take_profit_price, entry_price), STOP_LOSS_MAX_RATIO))
    ELSE QAdd(entry_price,
              QMul(QSub(entry_price, take_profit_price), STOP_LOSS_MAX_RATIO))

NoCall ==
    [fn |-> "", sentiment |-> 0, risk_percent |-> Q(0), take_profit |-> Q(0),
     stop_loss |-> Q(0), direction |-> "", capital |-> Q(0),
     entry_price |-> Q(0), take_profit_price |-> Q(0), curve |-> <<>>,
     rows |-> 0, index |-> 0, current |-> 0, window |-> <<>>, pattern |-> "",
     ok |-> FALSE, reason |-> "", value |-> Q(0)]

\* the arguments the core-rules functions are called with
Sentiments == -4..4
Fractions == { <<0, 1>>, <<1, 400>>, <<1, 250>>, <<1, 200>>, <<1, 100>>, <<1, 50>> }
RiskArgs == Fractions \cup { NoneQ, <<-1, 100>>, <<1, 1>> }
Directions == {"LONG", "SHORT", ""}
Capitals == { Q(0), Q(1), Q(500), Q(999), Q(1000), Q(1001), Q(10000) }
Prices == { Q(50), Q(99), Q(100), Q(102), Q(110) }

NoLoad == [called |-> FALSE, columns_ok |-> FALSE, monotonic |-> FALSE,
           ret |-> FALSE]

\* the time stamps of the rows increase strictly
Monotonic(rows) ==
    \A k \in 1..(Len(rows) - 1) : rows[k].timestamp < rows[k + 1].timestamp

\* StrategyTesterTab.__init__ / init_ui: no file chosen, the Run button
\* disabled, no BacktestThread started
NoUi == [strategy_file |-> FALSE, data_file |-> FALSE, run_button |-> FALSE,
         threads |-> <<>>, aborted |-> FALSE]

(***************************************************************************)
(* Initial state: a freshly constructed engine, no call made.              *)
(***************************************************************************)
Init ==
    /\ loaded = FALSE
    /\ data = <<>>
    /\ capital = Q(InitialCapital)
    /\ trades = <<>>
    /\ equity_curve = <<>>
    /\ current_position = <<>>
    /\ pc = "idle"
    /\ i = 0
    /\ rules = NoRules
    /\ result = NoResult
    /\ opened = <<>>
    /\ prev = <<>>
    /\ last_load = NoLoad
    /\ call = NoCall
    /\ ui = NoUi

(***************************************************************************)
(* load_data.  A frame is accepted when it has the required columns; its   *)
(* rows are sorted by time stamp.                                          *)
(***************************************************************************)
\* load_data that stores the rows before it looks at the columns
LoadDataStoresFirst(df) ==
    /\ pc = "idle"
    /\ data' = SortByTimestamp(df.rows)
    /\ loaded' = TRUE
    /\ rules' = NoRules
    /\ last_load' = [called |-> TRUE, columns_ok |-> df.columns_ok,
                     monotonic |-> Monotonic(df.rows), ret |-> df.columns_ok]
    /\ UNCHANGED <<capital, trades, equity_curve, current_position, pc, i,
                   result, opened, prev, call, ui>>

LoadData(df) ==
    /\ pc = "idle"
    /\ IF ~df.columns_ok
       THEN UNCHANGED <<loaded, data, rules>>
       ELSE /\ data' = SortByTimestamp(df.rows)
            /\ loaded' = TRUE
            /\ rules' = NoRules
    /\ last_load' = [called |-> TRUE, columns_ok |-> df.columns_ok,
                     monotonic |-> Monotonic(df.rows), ret |-> df.columns_ok]
    /\ UNCHANGED <<capital, trades, equity_curve, current_position, pc, i,
                   result, opened, prev, call, ui>>

(***************************************************************************)
(* execute_strategy, from the call to the first loop iteration.            *)
(***************************************************************************)
\* a reset that leaves the capital of the previous run in place
ResetCapitalKeep(cap) == cap

\* self.capital = self.initial_capital
ResetCapital(cap) == Q(InitialCapital)

ExecuteStrategy(r) ==
    /\ pc = "idle"
    /\ rules' = r
    /\ last_load' = NoLoad
    /\ IF ~loaded
       THEN /\ result' = [NoResult EXCEPT !.raised = "AttributeError"]
            /\ prev' = <<>>
            /\ UNCHANGED <<capital, trades, equity_curve, current_position,
                           pc, i, opened>>
       ELSE IF Len(data) = 0
       THEN /\ result' = ErrorResult("No data loaded")
            /\ prev' = <<>>
            /\ UNCHANGED <<capital, trades, equity_curve, current_position,
                           pc, i, opened>>
       ELSE /\ capital' = ResetCapital(capital)
            /\ trades' = <<>>
            /\ equity_curve' = <<Q(InitialCapital)>>
            /\ current_position' = <<>>
            /\ opened' = <<>>
            /\ prev' = IF r = rules /\ result.keys # {} THEN <<result>> ELSE <<>>
            /\ result' = NoResult
            /\ i' = 1
            /\ pc' = "loop"
    /\ UNCHANGED <<loaded, data, call, ui>>

\* one iteration of `for i in range(1, len(self.data))`
LoopStep ==
    /\ pc = "loop"
    /\ i < Len(data)
    /\ LET n == LoopBody(capital, trades, current_position, equity_curve, opened,
                         data[i + 1], PrevCandles(data, i), Params(rules))
       IN  /\ capital' = n.capital
           /\ trades' = n.trades
           /\ current_position' = n.current_position
           /\ equity_curve' = n.equity_curve
           /\ opened' = n.opened
    /\ i' = i + 1
    /\ UNCHANGED <<loaded, data, pc, rules, result, prev, last_load, call, ui>>

\* a final close that leaves the position open
FinalCloseSkipped(cap, hist, pos, d) ==
    [capital |-> cap, trades |-> hist, current_position |-> pos]

\* `if self.current_position:` close it at the last candle's close
FinalClose(cap, hist, pos, d) ==
    ClosePosition(cap, hist, pos, d[Len(d)].timestamp, Q(d[Len(d)].close))

\* after the loop: close any open position at the last candle, build the report
LoopExit ==
    /\ pc = "loop"
    /\ i >= Len(data)
    /\ LET c == FinalClose(capital, trades, current_position, data)
       IN  /\ capital' = c.capital
           /\ trades' = c.trades
           /\ current_position' = c.current_position
           /\ result' = CalculateResults(c.capital, c.trades, equity_curve)
    /\ pc' = "idle"
    /\ UNCHANGED <<loaded, data, equity_curve, i, rules, opened, prev,
                   last_load, call, ui>>

\* The frames a behaviour loads: any series of at most MaxCandles candles
\* into a new engine; afterwards an empty frame or a frame that lacks a column.
Frames ==
    IF ~loaded
    THEN { Frame(sh, o, c) : sh \in SeqsUpTo(CandleShapes, MaxCandles),
                             o \in {"asc", "desc"}, c \in BOOLEAN }
    ELSE { Frame(<<>>, "asc", TRUE) } \cup
         { Frame(sh, "asc", FALSE) : sh \in SeqsUpTo(CandleShapes, 1) }

Next ==
    \/ \E df \in Frames : LoadData(df)
    \/ \E r \in StrategyRules : ExecuteStrategy(r)
    \/ LoopStep
    \/ LoopExit

Spec == Init /\ [][Next]_vars

(***************************************************************************)
(* The core-rules functions, each applied once to arguments from the sets  *)
(* above.                                                                  *)
(***************************************************************************)
CallValidate(s, rp, tp, sl, d) ==
    LET v == ValidateCoreRules(s, rp, tp, sl, d)
    IN  /\ call = NoCall
        /\ call' = [NoCall EXCEPT !.fn = "validate_core_rules",
                       !.sentiment = s, !.risk_percent = rp, !.take_profit = tp,
                       !.stop_loss = sl, !.direction = d,
                       !.ok = v[1], !.reason = v[2]]
        /\ UNCHANGED <<engineVars, ui>>

CallPositionSize(cap, rp) ==
    /\ call = NoCall
    /\ call' = [NoCall EXCEPT !.fn = "calculate_position_size",
                   !.capital = cap, !.risk_percent = rp,
                   !.value = CalculatePositionSize(cap, rp)]
    /\ UNCHANGED <<engineVars, ui>>

CallStopLoss(entry, tp, d) ==
    /\ call = NoCall
    /\ call' = [NoCall EXCEPT !.fn = "calculate_stop_loss",
                   !.entry_price = entry, !.take_profit_price = tp, !.direction = d,
                   !.value = CalculateStopLoss(entry, tp, d)]
    /\ UNCHANGED <<engineVars, ui>>

NextRules ==
    \/ \E s \in Sentiments, rp \in Fractions, tp \in Fractions, sl \in Fractions,
          d \in Directions : CallValidate(s, rp, tp, sl, d)
    \/ \E cap \in Capitals, rp \in RiskArgs : CallPositionSize(cap, rp)
    \/ \E entry \in Prices, tp \in Prices, d \in Directions : CallStopLoss(entry, tp, d)

SpecRules == Init /\ [][NextRules]_vars

(***************************************************************************)
(* The drawdown computation of _calculate_results, applied once to an      *)
(* equity curve of at most MaxCurve snapshots.                             *)
(***************************************************************************)
MaxCurve == 4
EquityLevels == { Q(9800), Q(10000), Q(10200), Q(10500) }
Curves == UNION { [1..k -> EquityLevels] : k \in 1..MaxCurve }

CallMaxDrawdown(eq) ==
    /\ call = NoCall
    /\ call' = [NoCall EXCEPT !.fn = "max_drawdown", !.curve = eq,
                   !.value = MaxDrawdown(eq)]
    /\ UNCHANGED <<engineVars, ui>>

NextMetrics == \E eq \in Curves : CallMaxDrawdown(eq)

SpecMetrics == Init /\ [][NextMetrics]_vars

(***************************************************************************)
(* The inputs of one loop iteration of execute_strategy, taken once from a *)
(* series of at most MaxRows candles: long enough for the window of 50 to  *)
(* be full.  Row k of the series has time stamp k and is the candle with   *)
(* index k - 1 of the data frame.                                          *)
(***************************************************************************)
MaxRows == 56

PricePatterns == {"flat", "falling", "rising"}

PatternShape(pattern, k) ==
    LET c == CASE pattern = "falling" -> 200 - k
               [] pattern = "rising"  -> 100 + k
               [] OTHER               -> 100
    IN  [open |-> c, high |-> c + 1, low |-> c - 1, close |-> c]

Series(pattern, n) == [k \in 1..n |-> Candle(k, PatternShape(pattern, k))]

\* current_candle and prev_candles at index idx of a series of n rows
CallWindow(n, idx) ==
    /\ call = NoCall
    /\ LET d == Series("flat", n)
       IN  call' = [NoCall EXCEPT !.fn = "window", !.rows = n, !.index = idx,
                       !.current = d[idx + 1].timestamp,
                       !.window = [k \in 1..Len(PrevCandles(d, idx)) |->
                                      PrevCandles(d, idx)[k].timestamp]]
    /\ UNCHANGED <<engineVars, ui>>

\* the loop body at index idx of a series of n rows, with no position open
\* and the rules built for an RSI strategy: is a position opened?
CallEntry(pattern, n, idx) ==
    /\ call = NoCall
    /\ LET d == Series(pattern, n)
           after == LoopBody(Q(InitialCapital), <<>>, <<>>, <<Q(InitialCapital)>>,
                             <<>>, d[idx + 1], PrevCandles(d, idx), Params(RsiRules))
       IN  call' = [NoCall EXCEPT !.fn = "entry", !.pattern = pattern,
                       !.rows = n, !.index = idx,
                       !.current = d[idx + 1].timestamp,
                       !.ok = after.current_position # <<>>]
    /\ UNCHANGED <<engineVars, ui>>

NextWindow ==
    \/ \E n \in 2..MaxRows : \E idx \in 1..(n - 1) : CallWindow(n, idx)
    \/ \E pattern \in PricePatterns : \E n \in 2..MaxRows : \E idx \in 1..(n - 1) :
          CallEntry(pattern, n, idx)

SpecWindow == Init /\ [][NextWindow]_vars

(***************************************************************************)
(* The strategy tester tab (ui/tabs/strategy_tester_tab.py).  Every        *)
(* BacktestThread works on the one module-level backtest_engine; here only *)
(* the place of each thread in BacktestThread.run is followed: "parse",    *)
(* "load" (up to and including backtest_engine.load_data), "execute"       *)
(* (inside backtest_engine.execute_strategy), then "finished" or "failed"  *)
(* (signal emitted, callback not yet run) and "done".  The engine calls    *)
(* themselves are the actions of Spec.                                     *)
(***************************************************************************)
MaxThreads == 3

Running(phase) == phase \in {"parse", "load", "execute"}

\* check_ready
CheckReady(u) ==
    IF u.strategy_file /\ u.data_file THEN [u EXCEPT !.run_button = TRUE] ELSE u

OnStrategyUploaded ==
    /\ ~ui.aborted
    /\ ui' = CheckReady([ui EXCEPT !.strategy_file = TRUE])
    /\ UNCHANGED <<engineVars, call>>

OnDataUploaded ==
    /\ ~ui.aborted
    /\ ui' = CheckReady([ui EXCEPT !.data_file = TRUE])
    /\ UNCHANGED <<engineVars, call>>

\* run_backtest: the button is disabled and a new BacktestThread replaces
\* self.backtest_thread.  If the replaced thread is still running, its
\* QThread object is destroyed while running: either the process is aborted
\* there, or the old thread keeps running next to the new one.
RunBacktest ==
    /\ ~ui.aborted
    /\ ui.run_button
    /\ Len(ui.threads) < MaxThreads
    /\ \/ ui' = [ui EXCEPT !.run_button = FALSE,
                           !.threads = Append(@, "parse")]
       \/ /\ ui.threads # <<>>
          /\ Running(ui.threads[Len(ui.threads)])
          /\ ui' = [ui EXCEPT !.run_button = FALSE, !.aborted = TRUE]
    /\ UNCHANGED <<engineVars, call>>

\* BacktestThread.run, one stage of thread t: the stage succeeds, or it
\* fails and the error signal is emitted
ThreadStep(t) ==
    /\ ~ui.aborted
    /\ Running(ui.threads[t])
    /\ \E ok \in BOOLEAN :
          ui' = [ui EXCEPT !.threads[t] =
                    IF ~ok THEN "failed"
                    ELSE CASE @ = "parse" -> "load"
                           [] @ = "load"  -> "execute"
                           [] OTHER       -> "finished"]
    /\ UNCHANGED <<engineVars, call>>

\* on_backtest_complete / on_backtest_error for the signal of thread t
OnBacktestDone(t) ==
    /\ ~ui.aborted
    /\ ui.threads[t] \in {"finished", "failed"}
    /\ ui' = [ui EXCEPT !.threads[t] = "done", !.run_button = TRUE]
    /\ UNCHANGED <<engineVars, call>>

NextUi ==
    \/ OnStrategyUploaded
    \/ OnDataUploaded
    \/ RunBacktest
    \/ \E t \in 1..Len(ui.threads) : ThreadStep(t)
    \/ \E t \in 1..Len(ui.threads) : OnBacktestDone(t)

SpecUi == Init /\ [][NextUi]_vars

(***************************************************************************)
(* Properties of the backtest engine, checked under Spec.                  *)
(***************************************************************************)
Returned == pc = "idle" /\ "total_trades" \in result.keys
IsReport == pc = "idle" /\ result.keys = ReportKeys
LastCandle == data[Len(data)]

\* C1: at every step of a run at most one position is open: the positions
\* opened and not yet closed into the history number 0 or 1, and number 1
\* exactly when current_position holds a trade (no open replaces an open one).
C1_AtMostOneOpen ==
    LET unclosed == Len(opened) - Len(trades)
    IN  /\ unclosed \in {0, 1}
        /\ unclosed = 1 <=> current_position # <<>>

\* a position is held at a candle on which the entry condition holds again
C1_Witness ==
    /\ pc = "loop"
    /\ i < Len(data)
    /\ current_position # <<>>
    /\ CheckEntryConditions(data[i + 1], PrevCandles(data, i), Params(rules))

\* C2: when execute_strategy returns after the loop no position is open; a
\* position still open after the loop is closed at the last candle's close
\* price and time stamp and appended to the history the report is built from.
C2_NoDanglingPosition ==
    [][ (pc = "loop" /\ pc' = "idle") =>
          /\ current_position' = <<>>
          /\ result'.keys = ReportKeys => result'.trades = trades'
          /\ current_position # <<>> =>
                /\ Len(trades') = Len(trades) + 1
                /\ SubSeq(trades', 1, Len(trades)) = trades
                /\ trades'[Len(trades')].entry_time = current_position[1].entry_time
                /\ trades'[Len(trades')].exit_price = Q(LastCandle.close)
                /\ trades'[Len(trades')].exit_time = LastCandle.timestamp
                /\ trades'[Len(trades')].closed ]_vars

\* a run has returned whose last trade was held over the last candle and
\* closed by the forced close
C2_Witness ==
    /\ IsReport
    /\ current_position = <<>>
    /\ Len(equity_curve) = Len(data)
    /\ trades[Len(trades)].exit_time = LastCandle.timestamp
    /\ trades[Len(trades)].entry_time < LastCandle.timestamp
    /\ trades[Len(trades)].exit_price = Q(LastCandle.close)

\* C3: the history is append-only and holds exactly the closed positions, in
\* the order they were opened; each close appends the position once; only
\* the start of a new run empties the history; when a run returns the
\* history is as long as the number of positions opened.
C3_HistoryMatchesOpens ==
    [][ /\ pc = "loop" =>
             /\ Len(trades') \in {Len(trades), Len(trades) + 1}
             /\ SubSeq(trades', 1, Len(trades)) = trades
             /\ Len(trades') = Len(trades) + 1 =>
                   /\ current_position # <<>>
                   /\ current_position' = <<>>
                   /\ trades'[Len(trades')].closed
                   /\ trades'[Len(trades')].entry_time = current_position[1].entry_time
             /\ \A k \in 1..Len(trades') :
                   trades'[k].closed /\ trades'[k].entry_time = opened'[k]
        /\ pc # "loop" => (trades' = trades \/ (pc' = "loop" /\ trades' = <<>>))
        /\ (pc = "loop" /\ pc' = "idle") => Len(trades') = Len(opened') ]_vars

\* a run has returned after opening and closing two positions
C3_Witness ==
    /\ IsReport
    /\ Len(opened) = 2
    /\ Len(trades) = 2
    /\ trades[1].exit_time <= trades[2].entry_time

(***************************************************************************)
(* C4: the two-candle scenario.                                            *)
(***************************************************************************)
ScenarioT0 == [open |-> 100, high |-> 105, low |-> 95, close |-> 100]
ScenarioT1 == [open |-> 100, high |-> 102, low |-> 90, close |-> 92]
ScenarioRules == Rules("long", 1, 2, 10, Condition(""), Condition(""))
ScenarioRun(d) == Returned /\ data = d /\ rules = ScenarioRules

\* C4 as stated: the run over [t0, t1] opens at t0 at 100 and closes at t1 at
\* the stop price 99, one trade with negative profit.
C4_Original ==
    ScenarioRun(<<Candle(1, ScenarioT0), Candle(2, ScenarioT1)>>) =>
        /\ Len(trades) = 1
        /\ trades[1].entry_time = 1
        /\ trades[1].entry_price = Q(100)
        /\ trades[1].exit_time = 2
        /\ trades[1].exit_price = Q(99)
        /\ QLt(trades[1].profit, Q(0))

\* C4 amended: the loop starts at the second candle, so over [t0, t1] the
\* run opens at t1 at 92 and force-closes there with profit 0; with one
\* candle before t0 it opens at t0 at 100 and closes at t1 at the stop
\* price 99, one trade with negative profit.
C4_Scenario ==
    /\ ScenarioRun(<<Candle(1, ScenarioT0), Candle(2, ScenarioT1)>>) =>
          /\ Len(trades) = 1
          /\ trades[1].entry_time = 2
          /\ trades[1].entry_price = Q(92)
          /\ trades[1].exit_time = 2
          /\ trades[1].exit_price = Q(92)
          /\ trades[1].profit = Q(0)
    /\ \A sh \in CandleShapes :
          ScenarioRun(<<Candle(1, sh), Candle(2, ScenarioT0), Candle(3, ScenarioT1)>>) =>
             /\ Len(trades) = 1
             /\ trades[1].entry_time = 2
             /\ trades[1].entry_price = Q(100)
             /\ trades[1].exit_time = 3
             /\ trades[1].exit_price = Q(99)
             /\ QLt(trades[1].profit, Q(0))

\* the scenario preceded by one candle has run and stopped out at 99
C4_Witness ==
    /\ ScenarioRun(<<Candle(1, ScenarioT0), Candle(2, ScenarioT0), Candle(3, ScenarioT1)>>)
    /\ Len(trades) = 1
    /\ trades[1].exit_price = Q(99)

\* C5: every closed trade of positive size has profit (exit - entry) * size
\* when long and (entry - exit) * size when short, so a long trade wins
\* exactly when it exits above its entry and a short trade exactly when it
\* exits below; profit_percent has the sign of profit.
C5_ProfitSign ==
    \A k \in 1..Len(trades) :
       LET t == trades[k]
           up == QSub(t.exit_price, t.entry_price)
       IN  QGt(t.position_size, Q(0)) =>
             /\ t.direction = "long" =>
                   /\ QGt(t.profit, Q(0)) <=> QGt(t.exit_price, t.entry_price)
                   /\ t.profit = QMul(up, t.position_size)
             /\ t.direction = "short" =>
                   /\ QGt(t.profit, Q(0)) <=> QLt(t.exit_price, t.entry_price)
                   /\ t.profit = QMul(QNeg(up), t.position_size)
             /\ Sign(t.profit_percent) = Sign(t.profit)

\* a short trade that exited below its entry, with a profit
C5_Witness ==
    \E k \in 1..Len(trades) :
       /\ trades[k].direction = "short"
       /\ QLt(trades[k].exit_price, trades[k].entry_price)
       /\ QGt(trades[k].profit, Q(0))

\* C9: running the same rules again on the same loaded data returns a report
\* equal in every field to the one the run before returned.
C9_RerunIdentical == (pc = "idle" /\ prev # <<>>) => result = prev[1]

\* the same rules have run twice and made two trades with a net profit or loss
C9_Witness ==
    /\ IsReport
    /\ prev # <<>>
    /\ result.total_trades = 2
    /\ result.total_profit # Q(0)

\* C10: profit_factor of a report is a number; it is 0 when there is no
\* losing trade and whenever the average loss is 0, and otherwise it is
\* |avg_win / avg_loss|.
C10_ProfitFactor ==
    IsReport =>
       /\ IsNum(result.profit_factor)
       /\ result.losing_trades = 0 => result.profit_factor = Q(0)
       /\ result.avg_loss = Q(0) => result.profit_factor = Q(0)
       /\ result.avg_loss # Q(0) =>
             QMul(result.profit_factor, QAbs(result.avg_loss)) = QAbs(result.avg_win)

\* a report of winning trades only
C10_Witness ==
    /\ IsReport
    /\ result.winning_trades >= 1
    /\ result.losing_trades = 0
    /\ result.profit_factor = Q(0)

C13_Original ==
    (pc = "idle" /\ rules # NoRules /\ (~loaded \/ Len(data) = 0)) =>
        /\ result.raised = ""
        /\ result.keys = {"error"}
        /\ current_position = <<>>

\* rules that lack a field, or whose declarative conditions hold a key other
\* than rsi_below, price_above_ma (entry) and rsi_above (exit)
InvalidRules(r) ==
    \/ r.fields # RuleFields
    \/ \E p \in r.entry_conditions.keys : p[1] \notin {"rsi_below", "price_above_ma"}
    \/ \E p \in r.exit_conditions.keys : p[1] # "rsi_above"

\* a run of such rules on a loaded, non-empty series has been started
InvalidRulesRun == loaded /\ Len(data) > 0 /\ rules # NoRules /\ InvalidRules(rules)

C15_Original ==
    result.keys # {} => (result.keys = ReportKeys \/ result.keys = {"error"})

\* C15 amended: a returned value is a complete report without an error
\* marker, or the error 'No data loaded' and nothing else, or, for a run
\* that made no trade, the error 'No trades executed' together with
\* total_trades = 0 and no other field; a call that raises returns no value.
C15_ReportOrError ==
    /\ result.raised # "" => result.keys = {}
    /\ result.keys \in {{}, ReportKeys, {"error"}, {"total_trades", "error"}}
    /\ result.keys = ReportKeys =>
          /\ "error" \notin result.keys
          /\ result.error = ""
          /\ result.total_trades = Len(result.trades)
          /\ result.total_trades >= 1
          /\ result.equity_curve # <<>>
    /\ result.keys = {"error"} => result.error = "No data loaded"
    /\ result.keys = {"total_trades", "error"} =>
          /\ result.error = "No trades executed"
          /\ result.total_trades = 0
          /\ trades = <<>>

\* a run over a loaded series has returned the no-trades result
C15_Witness ==
    /\ pc = "idle"
    /\ loaded
    /\ Len(data) >= 2
    /\ result.keys = {"total_trades", "error"}
    /\ result.error = "No trades executed"

\* C16 as stated: the equity curve holds the initial capital and then one
\* snapshot for every simulated candle, also for a candle on which the
\* position was closed: after k candles of the loop it has k + 1 entries, and
\* N entries when a run over N candles returns.
C16_Original ==
    /\ pc = "loop" => Len(equity_curve) = i
    /\ (Returned /\ loaded /\ Len(data) > 0) => Len(equity_curve) = Len(data)

\* the stop and take-profit levels of a position entered at entry_price
StopLevel(entry_price, percent) ==
    QDiv(QMul(entry_price, Q(100 - percent)), Q(100))

TakeProfitLevel(entry_price, percent) ==
    QDiv(QMul(entry_price, Q(100 + percent)), Q(100))

\* the trade appended by this step, closed at the given price at the candle
ClosedAt(price, candle) ==
    /\ current_position' = <<>>
    /\ Len(trades') = Len(trades) + 1
    /\ SubSeq(trades', 1, Len(trades)) = trades
    /\ trades'[Len(trades')].exit_price = price
    /\ trades'[Len(trades')].exit_time = candle.timestamp
    /\ trades'[Len(trades')].entry_time = current_position[1].entry_time

\* C18: a candle met with a position open is tested for stop-loss, then
\* take-profit, then the exit condition, and the position closes on the first
\* that fires: a LONG position whose candle breaches the stop closes at the
\* stop price even if the candle also reaches the take-profit level; the
\* take-profit price is used only without a stop breach; the exit condition
\* closes at the candle's close only when neither fired; else it stays open.
C18_CloseOrder ==
    [][(pc = "loop" /\ pc' = "loop" /\ current_position # <<>>) =>
          LET pos == current_position[1]
              candle == data[i + 1]
              p == Params(rules)
              sl == StopLevel(pos.entry_price, p.stop_loss_percent)
              tp == TakeProfitLevel(pos.entry_price, p.take_profit_percent)
              slFires == pos.direction = "long" /\ QLe(Q(candle.low), sl)
              tpFires == pos.direction = "long" /\ QGe(Q(candle.high), tp)
              exitFires == CheckExitConditions(candle, PrevCandles(data, i), p)
          IN  /\ slFires => ClosedAt(sl, candle)
              /\ (~slFires /\ tpFires) => ClosedAt(tp, candle)
              /\ (~slFires /\ ~tpFires /\ exitFires) =>
                     ClosedAt(Q(candle.close), candle)
              /\ (~slFires /\ ~tpFires /\ ~exitFires) =>
                     (trades' = trades /\ current_position' = current_position)
      ]_vars

\* a long trade was closed at its stop price on a candle that also reached
\* its take-profit level
C18_Witness ==
    /\ pc = "loop"
    /\ trades # <<>>
    /\ LET t == trades[Len(trades)]
           p == Params(rules)
       IN  /\ t.direction = "long"
           /\ t.exit_price = StopLevel(t.entry_price, p.stop_loss_percent)
           /\ \E k \in 1..Len(data) :
                 /\ data[k].timestamp = t.exit_time
                 /\ QLe(Q(data[k].low),
                        StopLevel(t.entry_price, p.stop_loss_percent))
                 /\ QGe(Q(data[k].high),
                        TakeProfitLevel(t.entry_price, p.take_profit_percent))

\* the stop and take-profit levels of a SHORT position
ShortStopLevel(entry_price, percent) ==
    QDiv(QMul(entry_price, Q(100 + percent)), Q(100))

ShortTakeProfitLevel(entry_price, percent) ==
    QDiv(QMul(entry_price, Q(100 - percent)), Q(100))

\* C19 as stated: a SHORT position is closed at its stop price by a candle
\* whose high reaches entry * (1 + stop_loss_percent/100), and at its
\* take-profit price by a candle whose low reaches it, before the exit
\* condition: no SHORT position stays open over such a candle, and a SHORT
\* trade closed on such a candle has the stop or take-profit price as its
\* exit price.
C19_Original ==
    LET p == Params(rules)
        breach(t, candle) ==
            \/ QGe(Q(candle.high), ShortStopLevel(t.entry_price, p.stop_loss_percent))
            \/ QLe(Q(candle.low),
                   ShortTakeProfitLevel(t.entry_price, p.take_profit_percent))
    IN  /\ (pc = "loop" /\ current_position # <<>>
              /\ current_position[1].direction = "short") =>
               \A k \in 1..i :
                   data[k].timestamp > current_position[1].entry_time =>
                       ~breach(current_position[1], data[k])
        /\ pc = "loop" =>
               \A n \in 1..Len(trades) : \A k \in 1..i :
                   (/\ trades[n].direction = "short"
                    /\ data[k].timestamp = trades[n].exit_time
                    /\ trades[n].exit_time > trades[n].entry_time
                    /\ breach(trades[n], data[k])) =>
                       trades[n].exit_price \in
                           { ShortStopLevel(trades[n].entry_price,
                                            p.stop_loss_percent),
                             ShortTakeProfitLevel(trades[n].entry_price,
                                                  p.take_profit_percent) }

\* C20 as stated: the USD notional (position size * entry price) of every
\* position the engine opens is calculate_position_size of the capital at
\* that moment and the configured risk, and so never exceeds
\* max(capital * 1%, minimum position size), whatever position_size_percent
\* the rules supply.  (The capital does not change while a position is open.)
C20_Original ==
    (pc = "loop" /\ current_position # <<>>) =>
        LET notional == QMul(current_position[1].position_size,
                             current_position[1].entry_price)
            configured == QDiv(Q(Params(rules).position_size_percent), Q(100))
        IN  /\ \/ notional = CalculatePositionSize(capital, configured)
               \/ notional = CalculatePositionSize(capital, NoneQ)
            /\ QLe(notional, QMax(QMul(capital, MAX_RISK_PERCENT),
                                  Q(MIN_POSITION_SIZE)))

\* C21 as stated: every snapshot appended to the equity curve is the realized
\* capital plus the profit the open position would realize at the candle's
\* close: (close - entry) * size for LONG, (entry - close) * size for SHORT,
\* and the capital alone when no position is open.
C21_Original ==
    [][(pc = "loop" /\ pc' = "loop"
          /\ Len(equity_curve') = Len(equity_curve) + 1) =>
          LET close == Q(data[i + 1].close)
              snapshot == equity_curve'[Len(equity_curve')]
              pos == current_position'
          IN  snapshot =
                 IF pos = <<>> THEN capital'
                 ELSE IF pos[1].direction = "long"
                      THEN QAdd(capital', QMul(QSub(close, pos[1].entry_price),
                                               pos[1].position_size))
                      ELSE QAdd(capital', QMul(QSub(pos[1].entry_price, close),
                                               pos[1].position_size))
      ]_vars

\* C23: at every point the realized capital is the initial capital plus the
\* sum of the profits of the trades in the history, with or without a
\* position open; in a report total_profit = final_capital - initial_capital
\* and total_return_percent = total_profit / initial_capital * 100.
C23_CapitalIsSumOfProfits ==
    /\ capital = QAdd(Q(10000), QSum([k \in 1..Len(trades) |-> trades[k].profit]))
    /\ IsReport =>
          /\ result.initial_capital = Q(10000)
          /\ result.final_capital = capital
          /\ result.total_profit =
                QSub(result.final_capital, result.initial_capital)
          /\ result.total_return_percent =
                QDiv(QMul(result.total_profit, Q(100)), result.initial_capital)

\* a report of a winning and a losing trade whose profits do not cancel
C23_Witness ==
    /\ IsReport
    /\ result.winning_trades >= 1
    /\ result.losing_trades >= 1
    /\ result.total_profit # Q(0)
    /\ result.final_capital = QAdd(Q(10000), result.total_profit)

\* C24: a load_data call that fails leaves the loaded series, the capital,
\* the trade history, the equity curve and the open position as they were.
\* (A step from idle to idle after which last_load is set is a load_data call.)
C24_FailedLoadChangesNothing ==
    [][(pc = "idle" /\ pc' = "idle" /\ last_load'.called /\ ~last_load'.ret) =>
          UNCHANGED <<loaded, data, capital, trades, equity_curve,
                      current_position>>
      ]_vars

\* a load has failed on an engine that holds a series and the trades of a run
C24_Witness ==
    /\ last_load.called
    /\ ~last_load.ret
    /\ loaded
    /\ Len(data) >= 2
    /\ trades # <<>>
    /\ Len(equity_curve) >= 2

\* the rules of the run in progress or of the last run over the loaded
\* series trade long
LongRun ==
    /\ loaded
    /\ Len(data) > 0
    /\ rules # NoRules
    /\ Params(rules).direction = "long"

\* the candle with the given time stamp
CandleAt(ts) == CHOOSE c \in { data[k] : k \in 1..Len(data) } : c.timestamp = ts

\* C27: with direction long, positive percentages and candles with
\* low <= close <= high, every trade has -stop_loss_percent <= profit_percent
\* <= take_profit_percent: a trade whose exit candle breaches the stop exits
\* exactly at the stop level however low the candle went, else one whose
\* exit candle reaches the take-profit level exits exactly there, and a trade
\* closed by the exit condition or at the end of the series exits strictly
\* between the two levels.
C27_ProfitPercentBounded ==
    LongRun =>
       \A n \in 1..Len(trades) :
          LET t == trades[n]
              p == Params(rules)
              sl == StopLevel(t.entry_price, p.stop_loss_percent)
              tp == TakeProfitLevel(t.entry_price, p.take_profit_percent)
              candle == CandleAt(t.exit_time)
              later == t.exit_time > t.entry_time
          IN  /\ QGe(t.profit_percent, Q(-p.stop_loss_percent))
              /\ QLe(t.profit_percent, Q(p.take_profit_percent))
              /\ (later /\ QLe(Q(candle.low), sl)) =>
                    /\ t.exit_price = sl
                    /\ t.profit_percent = Q(-p.stop_loss_percent)
              /\ (later /\ ~QLe(Q(candle.low), sl) /\ QGe(Q(candle.high), tp)) =>
                    /\ t.exit_price = tp
                    /\ t.profit_percent = Q(p.take_profit_percent)
              /\ (~later \/ (~QLe(Q(candle.low), sl) /\ ~QGe(Q(candle.high), tp))) =>
                    /\ t.exit_price = Q(candle.close)
                    /\ QGt(t.exit_price, sl)
                    /\ QLt(t.exit_price, tp)

\* a long trade stopped out at exactly -stop_loss_percent by a candle whose
\* low is below the stop level, followed by a trade closed between the levels
C27_Witness ==
    /\ LongRun
    /\ Len(trades) >= 2
    /\ trades[1].profit_percent = Q(-Params(rules).stop_loss_percent)
    /\ QLt(Q(CandleAt(trades[1].exit_time).low), trades[1].exit_price)
    /\ QGt(trades[2].profit_percent, Q(-Params(rules).stop_loss_percent))
    /\ QLt(trades[2].profit_percent, Q(Params(rules).take_profit_percent))

\* C28: in the loop at most one open or close happens per candle: a
\* position is closed on a later candle than the one it was opened on, and
\* the next position is opened on a later candle than the one the last was
\* closed on.  The only trade opened and closed on the same candle is one
\* opened on the final candle and closed by the forced close after the loop,
\* at that candle's close, with profit exactly 0.
C28_OneActionPerCandle ==
    (loaded /\ Len(data) > 0 /\ rules # NoRules) =>
       /\ pc = "loop" => Len(opened) + Len(trades) <= i - 1
       /\ \A n \in 1..Len(trades) :
             /\ trades[n].exit_time >= trades[n].entry_time
             /\ trades[n].exit_time = trades[n].entry_time =>
                   /\ pc = "idle"
                   /\ n = Len(trades)
                   /\ trades[n].entry_time = LastCandle.timestamp
                   /\ trades[n].exit_price = Q(LastCandle.close)
                   /\ trades[n].profit = Q(0)
       /\ \A n \in 1..(Len(trades) - 1) :
             trades[n + 1].entry_time > trades[n].exit_time
       /\ (current_position # <<>> /\ trades # <<>>) =>
             current_position[1].entry_time > trades[Len(trades)].exit_time

\* a run in which a position was closed on a candle on which the entry
\* condition held, re-entered on the next, and the position opened on the
\* final candle was force-closed with profit 0
C28_Witness ==
    /\ Returned
    /\ Len(data) >= 4
    /\ Len(trades) >= 2
    /\ \E n \in 1..(Len(trades) - 1) :
          /\ trades[n].exit_time > trades[n].entry_time
          /\ trades[n + 1].entry_time = trades[n].exit_time + 1
          /\ \E k \in 2..Len(data) :
                /\ data[k].timestamp = trades[n].exit_time
                /\ CheckEntryConditions(data[k], PrevCandles(data, k - 1),
                                        Params(rules))
    /\ trades[Len(trades)].entry_time = LastCandle.timestamp
    /\ trades[Len(trades)].exit_time = LastCandle.timestamp
    /\ trades[Len(trades)].profit = Q(0)

(***************************************************************************)
(* Properties of the core-rules functions, checked under SpecRules.        *)
(***************************************************************************)
\* C6 as stated: for capital > 0 and a requested risk above the cap the
\* position size is exactly capital * MAX_RISK_PERCENT.
C6_Original ==
    (/\ call.fn = "calculate_position_size"
     /\ QGt(call.capital, Q(0))
     /\ call.risk_percent # NoneQ
     /\ QGt(call.risk_percent, MAX_RISK_PERCENT)) =>
        call.value = QMul(call.capital, MAX_RISK_PERCENT)

\* C7: validate_core_rules accepts exactly when |sentiment| >= 3, the risk is
\* within the cap, the stop loss is at most half the take profit, the take
\* profit is at least the minimum, and LONG comes with sentiment >= 3 and
\* SHORT with sentiment <= -3.
C7_AcceptsExactly ==
    call.fn = "validate_core_rules" =>
       /\ call.ok <=>
             /\ Abs(call.sentiment) >= 3
             /\ QLe(call.risk_percent, <<1, 100>>)
             /\ QLe(QMul(Q(2), call.stop_loss), call.take_profit)
             /\ QGe(call.take_profit, <<5, 1000>>)
             /\ call.direction = "LONG" => call.sentiment >= 3
             /\ call.direction = "SHORT" => call.sentiment <= -3
       /\ (call.direction = "LONG" /\ call.sentiment = 2) => ~call.ok
       /\ (call.ok /\ call.direction = "LONG") => call.sentiment > -3
       /\ (call.ok /\ call.direction = "SHORT") => call.sentiment < 3

\* an otherwise valid LONG proposal with sentiment +4 is accepted
C7_Witness ==
    /\ call.fn = "validate_core_rules"
    /\ call.direction = "LONG"
    /\ call.sentiment = 4
    /\ call.ok

StopDistanceIsHalf ==
    QAbs(QSub(call.value, call.entry_price)) =
        QMul(<<1, 2>>, QAbs(QSub(call.take_profit_price, call.entry_price)))

\* C8 as stated: for any entry and take-profit price the stop is half the
\* take-profit distance from entry, below entry for LONG, above for SHORT.
C8_Original ==
    call.fn = "calculate_stop_loss" =>
       /\ StopDistanceIsHalf
       /\ call.direction = "LONG" => QLt(call.value, call.entry_price)
       /\ call.direction = "SHORT" => QGt(call.value, call.entry_price)

\* C8 amended: the stop is exactly half the take-profit distance from entry;
\* it lies below entry for LONG when the take-profit price is above entry,
\* and above entry for SHORT when the take-profit price is below entry.
C8_StopLoss ==
    call.fn = "calculate_stop_loss" =>
       /\ StopDistanceIsHalf
       /\ (call.direction = "LONG" /\ QGt(call.take_profit_price, call.entry_price)) =>
             QLt(call.value, call.entry_price)
       /\ (call.direction = "SHORT" /\ QLt(call.take_profit_price, call.entry_price)) =>
             QGt(call.value, call.entry_price)

\* a SHORT stop computed for a take-profit price below entry
C8_Witness ==
    /\ call.fn = "calculate_stop_loss"
    /\ call.direction = "SHORT"
    /\ QLt(call.take_profit_price, call.entry_price)
    /\ QGt(call.value, call.entry_price)

\* C29: calculate_stop_loss returns entry - 0.5 * (take_profit - entry)
\* whatever the direction argument is (LONG, SHORT or any other string), so
\* the stop lies below entry when the take-profit price is above it and
\* above entry when the take-profit price is below it.
C29_DirectionIrrelevant ==
    call.fn = "calculate_stop_loss" =>
       /\ call.value =
             QSub(call.entry_price,
                  QDiv(QSub(call.take_profit_price, call.entry_price), Q(2)))
       /\ QGt(call.take_profit_price, call.entry_price) =>
             QLt(call.value, call.entry_price)
       /\ QLt(call.take_profit_price, call.entry_price) =>
             QGt(call.value, call.entry_price)

\* a SHORT call with the take-profit price above entry: the stop is 95 for
\* entry 100 and take profit 110, the same as for LONG
C29_Witness ==
    /\ call.fn = "calculate_stop_loss"
    /\ call.direction = "SHORT"
    /\ call.entry_price = Q(100)
    /\ call.take_profit_price = Q(110)
    /\ call.value = Q(95)

FailedChecks ==
    LET failing ==
          [sentiment |-> call.sentiment > -3 /\ call.sentiment < 3,
           risk |-> QGt(call.risk_percent, <<1, 100>>),
           stop_loss |-> QGt(call.stop_loss, QMul(call.take_profit, <<1, 2>>)),
           take_profit |-> QLt(call.take_profit, <<5, 1000>>),
           long_sentiment |-> call.direction = "LONG" /\ call.sentiment < 3,
           short_sentiment |-> call.direction = "SHORT" /\ call.sentiment > -3]
    IN  SelectSeq(<<"sentiment", "risk", "stop_loss", "take_profit",
                    "long_sentiment", "short_sentiment">>,
                  LAMBDA c : failing[c])

\* C26: validate_core_rules checks sentiment, risk cap, stop-loss ratio,
\* minimum take profit and direction against sentiment in this order and
\* stops at the first failure: the reason returned is that of the earliest
\* failing check, as a (False, reason) value; with no failing check it
\* returns (True, ...).
C26_FirstFailureWins ==
    call.fn = "validate_core_rules" =>
       /\ call.ok <=> FailedChecks = <<>>
       /\ FailedChecks # <<>> => call.reason = FailedChecks[1]
       /\ call.ok => call.reason = "ok"

\* a call that fails three checks at once is rejected for the first of them
C26_Witness ==
    /\ call.fn = "validate_core_rules"
    /\ Len(FailedChecks) >= 3
    /\ FailedChecks[1] = "risk"
    /\ ~call.ok
    /\ call.reason = "risk"

(***************************************************************************)
(* Properties of the strategy tester tab, checked under SpecUi.            *)
(***************************************************************************)
\* C25 as stated: two backtest runs never work on the shared engine at the
\* same time, because a second run cannot be started while one is in
\* progress: the Run button stays disabled from run_backtest until the
\* completion or error callback, also when a file is uploaded meanwhile.
C25_Original ==
    LET busy == { t \in 1..Len(ui.threads) : ui.threads[t] # "done" }
        inEngine == { t \in 1..Len(ui.threads) :
                          ui.threads[t] \in {"load", "execute"} }
    IN  /\ busy # {} => ~ui.run_button
        /\ Cardinality(inEngine) <= 1

(***************************************************************************)
(* Properties of the loop inputs, checked under SpecWindow.                *)
(***************************************************************************)
\* C22: at index i the conditions get the candle with index i as the current
\* candle and a window of at most 50 candles, which are exactly the candles
\* with the indices max(0, i - 50) .. i - 1, in order: all before i,
\* contiguous up to i - 1, none after i.  (Row k has time stamp k and index
\* k - 1.)
C22_NoLookahead ==
    call.fn = "window" =>
       LET w == call.window
           idx == call.index
       IN  /\ call.current = idx + 1
           /\ Len(w) <= 50
           /\ Len(w) = IF idx < 50 THEN idx ELSE 50
           /\ w[Len(w)] = idx
           /\ \A k \in 1..(Len(w) - 1) : w[k + 1] = w[k] + 1
           /\ \A k \in 1..Len(w) : w[k] - 1 < idx

\* the window at index 55 of a series of 56 candles holds the 50 candles with
\* the indices 5 .. 54
C22_Witness ==
    /\ call.fn = "window"
    /\ call.rows = 56
    /\ call.index = 55
    /\ Len(call.window) = 50
    /\ call.window[1] = 6
    /\ call.window[50] = 55

\* C30: with 'rsi_below' in the declarative entry conditions no position is
\* opened at a candle index below 15, whatever the prices: the window holds
\* fewer than 15 closes, the RSI is unavailable and the entry condition is
\* false.
C30_NoEntryBeforeRsi ==
    (call.fn = "entry" /\ call.index < 15) => ~call.ok

\* at index 15 of a falling series the RSI is available (0, below 30) and
\* the position is opened
C30_Witness ==
    /\ call.fn = "entry"
    /\ call.pattern = "falling"
    /\ call.index = 15
    /\ call.ok

(***************************************************************************)
(* Properties of the report metrics, checked under SpecMetrics.            *)
(***************************************************************************)
\* the largest element of curve[1..k]
PeakUpTo(curve, k) ==
    CHOOSE m \in { curve[j] : j \in 1..k } : \A j \in 1..k : QLe(curve[j], m)

\* (running peak - equity) / running peak * 100 at position k
DrawdownAt(curve, k) ==
    QMul(QDiv(QSub(PeakUpTo(curve, k), curve[k]), PeakUpTo(curve, k)), Q(100))

\* C11: max_drawdown_percent is the maximum over the positions of the curve
\* of (running peak - equity) / running peak * 100; it is 700/10500*100 for
\* the curve [10000, 10500, 9800, 10200] and 0 for a non-decreasing curve.
C11_MaxDrawdown ==
    call.fn = "max_drawdown" =>
       LET c == call.curve
       IN  /\ \E k \in 1..Len(c) : call.value = DrawdownAt(c, k)
           /\ \A k \in 1..Len(c) : QLe(DrawdownAt(c, k), call.value)
           /\ c = <<Q(10000), Q(10500), Q(9800), Q(10200)>> =>
                 call.value = <<20, 3>>
           /\ (\A k \in 1..(Len(c) - 1) : QLe(c[k], c[k + 1])) => call.value = Q(0)

\* the drawdown of the curve [10000, 10500, 9800, 10200] has been computed
C11_Witness ==
    /\ call.fn = "max_drawdown"
    /\ call.curve = <<Q(10000), Q(10500), Q(9800), Q(10200)>>
    /\ call.value = <<20, 3>>

====
